---- MODULE Spec2Model ----
(***************************************************************************)
(* Model of the client-side state layer of Allusion:                       *)
(*   - FileStore (src/renderer/frontend/stores/FileStore.ts): the          *)
(*     in-memory file list, its asynchronous operations and the            *)
(*     reconciliation with the backend and the filesystem;                 *)
(*   - TagTree (src/renderer/frontend/components/TagTree.tsx): the         *)
(*     handlers that reparent collections and tags and that toggle the     *)
(*     tag selection.                                                      *)
(* Every asynchronous function is cut at its await points: one action per  *)
(* synchronous section, as the single-threaded event loop runs it.         *)
(***************************************************************************)
EXTENDS Integers, Sequences, FiniteSets, Bags, TLC

\* ---------------------------------------------------------------- bounds
\* File ids ever handed out (records of the initial database + addFile).
MaxFiles == 2
\* Length of the id list given to removeFilesById.
MaxIds == 2

\* Collections besides the root.
MaxCols == 2
\* Tags.
MaxTags == 3

FileIds == 1..MaxFiles
ColIds == 0..MaxCols
TagIds == 1..MaxTags
\* The store only ever asks whether a path exists (fs.access), and no operation
\* of the store creates or deletes a file on disk: one path that exists and one
\* that does not stand for all paths.
Paths == {"here", "gone"}
access(path) == path = "here"
\* A ClientFile object: its id and a serial number that tells apart the objects
\* made for the same id. NoFile is `undefined`.
Obj(id, n) == [id |-> id, n |-> n]
NoFile == Obj(0, 0)

\* ----------------------------------------------------------------- state
VARIABLES
  fileList,    \* FileStore.fileList: sequence of ClientFile objects
  disposed,    \* live ClientFile objects whose dispose() has run
  db,          \* the backend's file records, in the order fetchFiles returns them
  nextId,      \* the next id the ID generator hands out
  procs,       \* bag of the asynchronous FileStore calls in flight
  detached,    \* ids of backend.removeFile requests nobody awaits
  loaded,      \* init() has been called
  trace        \* what the last synchronous section did, in order

VARIABLES
  cols,          \* tagCollectionList: collection id -> its tags and subCollections
  nextCol,       \* the next collection id
  nextTag,       \* the next tag id
  adding,        \* per collection, the onAddTag calls that await tagStore.addTag
  tagSelection,  \* uiStore.tagSelection
  expandState,   \* the expandState of TagList
  fetches,       \* the arguments of the fileStore.fetchFilesByTagIDs calls of the last handler
  handler        \* the handler of the tag tree that ran last

treeVars == <<cols, nextCol, nextTag, adding, tagSelection, expandState, fetches, handler>>

fileVars == <<fileList, disposed, db, nextId, procs, detached, loaded, trace>>

\* --------------------------------------------------------------- helpers
Range(s) == {s[i] : i \in 1..Len(s)}

Min(S) == CHOOSE x \in S : \A y \in S : x <= y

Ev(kind, arg) == <<kind, arg>>

RECURSIVE Sum(_, _)
Sum(f, S) == IF S = {} THEN 0 ELSE LET x == CHOOSE y \in S : TRUE IN f[x] + Sum(f, S \ {x})

\* Array.prototype.find on the file list: the first object with this id, 0 (undefined) if none
Find(list, id) ==
  IF \E i \in 1..Len(list) : list[i].id = id
  THEN list[Min({i \in 1..Len(list) : list[i].id = id})]
  ELSE NoFile

\* observable array remove(value): drops the first occurrence, if any
RemoveFirst(list, o) ==
  IF \E i \in 1..Len(list) : list[i] = o
  THEN LET k == Min({i \in 1..Len(list) : list[i] = o})
       IN  [j \in 1..(Len(list) - 1) |-> IF j < k THEN list[j] ELSE list[j + 1]]
  ELSE list

\* Array.prototype.filter((_, i) => keep[i])
FilterByIndex(s, keep) ==
  LET idx == SelectSeq([i \in 1..Len(s) |-> i], LAMBDA i : keep[i])
  IN  [j \in 1..Len(idx) |-> s[idx[j]]]

Ids(list) == [i \in 1..Len(list) |-> list[i].id]

\* a backend file record
Rec(id, path) == [id |-> id, path |-> path]

\* a backend call in flight: tag 0 is awaited by the function itself, tag i by
\* the i-th callback of its Promise.all
Req(tag, kind, id, path, tags) ==
  [tag |-> tag, kind |-> kind, id |-> id, path |-> path, tags |-> tags,
   st |-> "pending", data |-> <<>>]

\* The place of a call made now among the calls made since the store was last
\* idle: 0 for a call made when none is in flight.
Stamp ==
  IF procs = EmptyBag THEN 0
  ELSE 1 + (CHOOSE n \in {pr.at : pr \in BagToSet(procs)} :
              \A pr \in BagToSet(procs) : pr.at <= n)

\* an asynchronous call in flight, made at `at`
Proc(op, files, chk, rm, k, obj, reqs) ==
  [op |-> op, files |-> files, chk |-> chk, rm |-> rm, k |-> k, obj |-> obj, reqs |-> reqs,
   at |-> Stamp]

ProcObjs(pr) == (Range(pr.rm) \cup {pr.obj}) \ {NoFile}

Running == BagToSet(procs)

Spawn(pr) == procs (+) SetToBag({pr})
Finish(old) == procs (-) SetToBag({old})
Become(old, new) == (procs (-) SetToBag({old})) (+) SetToBag({new})

\* the objects some list or some running call still refers to
Referenced(list, ps) == Range(list) \cup UNION {ProcObjs(pr) : pr \in BagToSet(ps)}

\* new ClientFile(...): an object that is none of `used`
NewObj(id, used) == Obj(id, Min({n \in 0..Cardinality(used) : Obj(id, n) \notin used}))

RECURSIVE NewObjs(_, _)
NewObjs(ids, used) ==
  IF Len(ids) = 0 THEN <<>>
  ELSE LET o == NewObj(Head(ids), used) IN <<o>> \o NewObjs(Tail(ids), used \cup {o})

Live == Referenced(fileList, procs)

\* The store as a synchronous section sees and changes it; `out` collects the
\* backend calls the section issues and somebody awaits.
Store == [list |-> fileList, disposed |-> disposed,
          detached |-> detached, out |-> {}, trace |-> <<>>]

\* End of a synchronous section: the store and the calls in flight are written
\* back; objects nothing refers to any more are forgotten.
Commit(s, ps) ==
  LET live == Referenced(s.list, ps)
  IN  /\ fileList' = s.list
      /\ disposed' = s.disposed \cap live
      /\ detached' = s.detached
      /\ trace' = s.trace
      /\ procs' = ps

Emit(s, evs) == [s EXCEPT !.trace = @ \o evs]

\* the reply to an awaited backend call arrives
Reply(pr, r, st, data) ==
  Become(pr, [pr EXCEPT !.reqs = (@ \ {r}) \cup {[r EXCEPT !.st = st, !.data = data]}])

Settled(pr, tag) == {r \in pr.reqs : r.tag = tag /\ r.st # "pending"}

\* --------------------------------------------------------------- backend

\* initial database: records 1..n, each at some path
InitDbs ==
  UNION {{[i \in 1..n |-> Rec(i, p[i])] : p \in [1..n -> Paths]} : n \in 0..MaxFiles}

WithoutId(records, id) == SelectSeq(records, LAMBDA r : r.id # id)

SubSeqs(s) == {FilterByIndex(s, keep) : keep \in [1..Len(s) -> BOOLEAN]}

\* Backend.createFile: the record is stored, or the call fails
BackendCreateFile(pr, ok) ==
  /\ \E r \in pr.reqs :
       /\ r.kind = "createFile" /\ r.st = "pending"
       /\ procs' = Reply(pr, r, IF ok THEN "ok" ELSE "err", <<>>)
       /\ db' = IF ok THEN Append(db, Rec(r.id, r.path)) ELSE db
  /\ trace' = <<>>
  /\ UNCHANGED <<fileList, disposed, nextId, detached, loaded>>

\* Backend.fetchFiles: every record, or the call fails
BackendFetchFiles(pr, ok) ==
  /\ \E r \in pr.reqs :
       /\ r.kind = "fetchFiles" /\ r.st = "pending"
       /\ procs' = Reply(pr, r, IF ok THEN "ok" ELSE "err", IF ok THEN db ELSE <<>>)
  /\ trace' = <<>>
  /\ UNCHANGED <<fileList, disposed, db, nextId, detached, loaded>>

\* Backend.searchFiles: the records that carry one of the tags (the tags of a
\* file are not part of this model: any selection of records), or the call fails
BackendSearchFiles(pr, ok, found) ==
  /\ found \in SubSeqs(db)
  /\ \E r \in pr.reqs :
       /\ r.kind = "searchFiles" /\ r.st = "pending"
       /\ procs' = Reply(pr, r, IF ok THEN "ok" ELSE "err", IF ok THEN found ELSE <<>>)
  /\ trace' = <<>>
  /\ UNCHANGED <<fileList, disposed, db, nextId, detached, loaded>>

\* Backend.removeFile of an awaited call: the record is deleted (deleting a
\* record that is gone is no error), or the call fails
BackendRemoveFile(pr, ok) ==
  /\ \E r \in pr.reqs :
       /\ r.kind = "removeFile" /\ r.st = "pending"
       /\ procs' = Reply(pr, r, IF ok THEN "ok" ELSE "err", <<>>)
       /\ db' = IF ok THEN WithoutId(db, r.id) ELSE db
  /\ trace' = <<>>
  /\ UNCHANGED <<fileList, disposed, nextId, detached, loaded>>

\* Backend.removeFile of a call nobody awaits
BackendRemoveFileDetached(id, ok) ==
  /\ id \in detached
  /\ detached' = detached \ {id}
  /\ db' = IF ok THEN WithoutId(db, id) ELSE db
  /\ trace' = <<>>
  /\ UNCHANGED <<fileList, disposed, nextId, procs, loaded>>

\* ------------------------------------------------------------- FileStore

FileInit ==
  /\ fileList = <<>>
  /\ disposed = {}
  /\ db \in InitDbs
  /\ nextId = Len(db) + 1
  /\ procs = EmptyBag
  /\ detached = {}
  /\ loaded = FALSE
  /\ trace = <<>>

\* addFile, up to `await this.backend.createFile(file.id, file.path)`
AddFileCall(path) ==
  /\ nextId <= MaxFiles
  /\ LET file == NewObj(nextId, Live)
         pr == Proc("addFile", <<>>, <<>>, <<>>, 0, file,
                    {Req(0, "createFile", nextId, path, <<>>)})
     IN  Commit(Store, Spawn(pr))
  /\ nextId' = nextId + 1
  /\ UNCHANGED <<db, loaded>>

\* addFileEnd with the error of createFile swallowed
addFileEndSwallowed(s, file, st) ==
  Emit([s EXCEPT !.list = Append(@, file)], <<Ev("push", file), Ev("addFile.return", NoFile)>>)

\* addFile, after createFile: the file is pushed and returned, or the error is thrown on
addFileEnd(s, file, st) ==
  IF st = "ok"
  THEN Emit([s EXCEPT !.list = Append(@, file)], <<Ev("push", file), Ev("addFile.return", NoFile)>>)
  ELSE Emit(s, <<Ev("addFile.throw", NoFile)>>)

AddFileResume(pr) ==
  /\ pr.op = "addFile"
  /\ \E r \in Settled(pr, 0) : Commit(addFileEnd(Store, pr.obj, r.st), Finish(pr))
  /\ UNCHANGED <<db, nextId, loaded>>

\* removeFile: deselect, dispose, remove from the list, then the backend call
\* whose promise it returns; `tag` names who awaits that promise
removeFile(s, file, tag) ==
  [s EXCEPT !.trace = @ \o <<Ev("deselectFile", file), Ev("dispose", file),
                             Ev("remove", file), Ev("backend.removeFile", file)>>,
            !.disposed = @ \cup {file},
            !.list = RemoveFirst(@, file),
            !.out = @ \cup {Req(tag, "removeFile", file.id, "", <<>>)}]

\* removeFilesById with the removals started together, as Promise.all would
RECURSIVE removeLoopParallel(_, _, _)
removeLoopParallel(s, rm, k) ==
  IF k > Len(rm) THEN [s |-> s, k |-> k]
  ELSE IF rm[k] = NoFile THEN removeLoopParallel(s, rm, k + 1)
  ELSE LET rest == removeLoopParallel(removeFile(s, rm[k], 0), rm, k + 1)
       IN  [s |-> rest.s, k |-> IF rest.k > Len(rm) THEN k ELSE rest.k]

\* the for loop of removeFilesById, were it to return at the first id without a file
removeLoopReturnsAtUnresolved(s, rm, k) ==
  IF k > Len(rm) THEN [s |-> Emit(s, <<Ev("removeFilesById.return", NoFile)>>), k |-> k]
  ELSE IF rm[k] # NoFile THEN [s |-> removeFile(s, rm[k], 0), k |-> k]
  ELSE [s |-> Emit(s, <<Ev("console.log", NoFile), Ev("removeFilesById.return", NoFile)>>),
        k |-> Len(rm) + 1]

\* the for loop of removeFilesById, from its k-th file to the next await or to the end
RECURSIVE removeLoop(_, _, _)
removeLoop(s, rm, k) ==
  IF k > Len(rm) THEN [s |-> Emit(s, <<Ev("removeFilesById.return", NoFile)>>), k |-> k]
  ELSE IF rm[k] # NoFile THEN [s |-> removeFile(s, rm[k], 0), k |-> k]
  ELSE removeLoop(Emit(s, <<Ev("console.log", NoFile)>>), rm, k + 1)

IdLists == UNION {[1..n -> FileIds] : n \in 0..MaxIds}

\* removeFilesById, up to its first await
RemoveFilesByIdCall(ids) ==
  /\ LET filesToRemove == [i \in 1..Len(ids) |-> Find(fileList, ids[i])]
         r == removeLoop(Store, filesToRemove, 1)
     IN  IF r.k > Len(ids)
         THEN Commit(r.s, procs)
         ELSE Commit(r.s, Spawn(Proc("removeFilesById", <<>>, <<>>, filesToRemove, r.k, NoFile, r.s.out)))
  /\ UNCHANGED <<db, nextId, loaded>>

\* removeFilesById, from the completion of one backend deletion to the next await
RemoveFilesByIdResume(pr) ==
  /\ pr.op = "removeFilesById"
  /\ \E q \in Settled(pr, 0) :
       IF q.st = "err"
       THEN Commit(Emit(Store, <<Ev("removeFilesById.throw", NoFile)>>), Finish(pr))
       ELSE LET r == removeLoop(Store, pr.rm, pr.k + 1)
            IN  IF r.k > Len(pr.rm)
                THEN Commit(r.s, Finish(pr))
                ELSE Commit(r.s, Become(pr, [pr EXCEPT !.k = r.k, !.reqs = (@ \ {q}) \cup r.s.out]))
  /\ UNCHANGED <<db, nextId, loaded>>

\* filesFromBackend: one new ClientFile per record, in order
filesFromBackend(backendFiles) ==
  NewObjs([i \in 1..Len(backendFiles) |-> backendFiles[i].id], Live)

\* this.fileList.forEach((f) => f.dispose())
disposeAll(s) ==
  [s EXCEPT !.disposed = @ \cup Range(s.list),
            !.trace = @ \o [i \in 1..Len(s.list) |-> Ev("dispose", s.list[i])]]

clearFileList(s) ==
  Emit([disposeAll(s) EXCEPT !.list = <<>>], <<Ev("clear", NoFile)>>)

\* replaceFileList without the clean-up of the files it drops
replaceFileListUndisposed(s, files) ==
  Emit([s EXCEPT !.list = files], <<Ev("replace", NoFile)>>)

replaceFileList(s, files) ==
  Emit([disposeAll(s) EXCEPT !.list = files], <<Ev("replace", NoFile)>>)

\* fetchAllFiles, were a new fetch to cancel the calls in flight
FetchAllFilesCallCancelling ==
  /\ Commit(Store, SetToBag({Proc("fetchAllFiles", <<>>, <<>>, <<>>, 0, NoFile,
                                   {Req(0, "fetchFiles", 0, "", <<>>)})}))
  /\ UNCHANGED <<db, nextId, loaded>>

\* fetchAllFiles, up to `await this.backend.fetchFiles()`
FetchAllFilesCall ==
  /\ Commit(Store, Spawn(Proc("fetchAllFiles", <<>>, <<>>, <<>>, 0, NoFile,
                              {Req(0, "fetchFiles", 0, "", <<>>)})))
  /\ UNCHANGED <<db, nextId, loaded>>

TagLists == {<<>>, <<1>>}

\* fetchFilesByTagIDs, were it to fetch all files whatever the tag list
FetchFilesByTagIDsCallAll(tags) ==
  /\ Commit(Store, Spawn(Proc("fetchAllFiles", <<>>, <<>>, <<>>, 0, NoFile,
                              {Req(0, "fetchFiles", 0, "", <<>>)})))
  /\ UNCHANGED <<db, nextId, loaded>>

\* fetchFilesByTagIDs, up to its await: of fetchAllFiles for an empty tag
\* list, of backend.searchFiles otherwise
FetchFilesByTagIDsCall(tags) ==
  /\ IF Len(tags) = 0
     THEN Commit(Store, Spawn(Proc("fetchAllFiles", <<>>, <<>>, <<>>, 0, NoFile,
                                   {Req(0, "fetchFiles", 0, "", <<>>)})))
     ELSE Commit(Store, Spawn(Proc("fetchFilesByTagIDs", <<>>, <<>>, <<>>, 0, NoFile,
                                   {Req(0, "searchFiles", 0, "", tags)})))
  /\ UNCHANGED <<db, nextId, loaded>>

\* updateFromBackend, up to `await Promise.all(...)`: fs.access is started for
\* every record
updateStart(backendFiles) ==
  Proc("updateFromBackend", backendFiles, [i \in 1..Len(backendFiles) |-> "checking"],
       <<>>, 0, NoFile, {})

FetchOps == {"fetchAllFiles", "fetchFilesByTagIDs"}

\* fetchEnd without the catch
fetchEndUncaught(s, op, st) ==
  Emit(s, <<Ev(IF st = "ok" THEN "fetchAllFiles.return" ELSE "fetchAllFiles.throw", NoFile)>>)

\* the try/catch of fetchAllFiles and of fetchFilesByTagIDs after the backend
\* call: an error of the backend is caught and logged; the function returns
fetchEnd(s, op, st) ==
  Emit(s, (IF st = "ok" THEN <<>>
           ELSE <<Ev(IF op = "fetchAllFiles" THEN "console.error" ELSE "console.log", NoFile)>>)
          \o <<Ev(IF op = "fetchAllFiles" THEN "fetchAllFiles.return"
                  ELSE "fetchFilesByTagIDs.return", NoFile)>>)

\* updateFromBackend is called with the fetched records and not awaited
FetchResume(pr) ==
  /\ pr.op \in FetchOps
  /\ \E q \in Settled(pr, 0) :
       Commit(fetchEnd(Store, pr.op, q.st),
              IF q.st = "ok" THEN Become(pr, [updateStart(q.data) EXCEPT !.at = pr.at])
              ELSE Finish(pr))
  /\ UNCHANGED <<db, nextId, loaded>>

\* one callback of the Promise.all of updateFromBackend, from the completion of
\* fs.access to its return or to its await of removeFile
checkExistence(s, backendFile, i) ==
  IF access(backendFile.path)
  THEN [s |-> s, chk |-> "true"]
  ELSE LET s1 == Emit([s EXCEPT !.detached = @ \cup {backendFile.id}],
                      <<Ev("backend.removeFile(record)", Obj(backendFile.id, 0))>>)
           clientFile == Find(s1.list, backendFile.id)
       IN  IF clientFile # NoFile
           THEN [s |-> removeFile(s1, clientFile, i), chk |-> "removing"]
           ELSE [s |-> s1, chk |-> "false"]

Rejected(chk) == \E i \in 1..Len(chk) : chk[i] = "rejected"
AllSettled(chk) == \A i \in 1..Len(chk) : chk[i] \in {"true", "false", "rejected"}

\* a call whose Promise.all has rejected ends with its last callback
After(pr, next) ==
  IF AllSettled(next.chk) /\ Rejected(next.chk) THEN Finish(pr) ELSE Become(pr, next)

AccessResolve(pr, i) ==
  /\ pr.op = "updateFromBackend"
  /\ i \in 1..Len(pr.chk)
  /\ pr.chk[i] = "checking"
  /\ LET r == checkExistence(Store, pr.files[i], i)
     IN  Commit(r.s, After(pr, [pr EXCEPT !.chk[i] = r.chk, !.reqs = @ \cup r.s.out]))
  /\ UNCHANGED <<db, nextId, loaded>>

\* the callback after `await this.removeFile(clientFile)`: it returns false, or
\* the error of the backend rejects it and, with it, the Promise.all
removeEnd(st) == IF st = "ok" THEN "false" ELSE "rejected"

CallbackResume(pr, i) ==
  /\ pr.op = "updateFromBackend"
  /\ i \in 1..Len(pr.chk)
  /\ pr.chk[i] = "removing"
  /\ \E q \in Settled(pr, i) :
       Commit(Emit(Store, IF removeEnd(q.st) = "rejected" /\ ~Rejected(pr.chk)
                          THEN <<Ev("updateFromBackend.throw", NoFile)>> ELSE <<>>),
              After(pr, [pr EXCEPT !.chk[i] = removeEnd(q.st), !.reqs = @ \ {q}]))
  /\ UNCHANGED <<db, nextId, loaded>>

\* updatePolicy with the fresh load taken from all the records
updatePolicyUnfiltered(s, backendFiles, existenceChecker) ==
  LET existingBackendFiles == FilterByIndex(backendFiles, existenceChecker)
  IN  IF Len(s.list) = 0
      THEN LET files == filesFromBackend(backendFiles)
           IN  Emit([s EXCEPT !.list = @ \o files],
                    [i \in 1..Len(files) |-> Ev("push", files[i])])
      ELSE IF Len(existingBackendFiles) = 0
      THEN clearFileList(s)
      ELSE replaceFileList(s, filesFromBackend(existingBackendFiles))

\* updateFromBackend after `await Promise.all(...)`
updatePolicy(s, backendFiles, existenceChecker) ==
  LET existingBackendFiles == FilterByIndex(backendFiles, existenceChecker)
  IN  IF Len(s.list) = 0
      THEN LET files == filesFromBackend(existingBackendFiles)
           IN  Emit([s EXCEPT !.list = @ \o files],
                    [i \in 1..Len(files) |-> Ev("push", files[i])])
      ELSE IF Len(existingBackendFiles) = 0
      THEN clearFileList(s)
      ELSE replaceFileList(s, filesFromBackend(existingBackendFiles))

UpdateFromBackendResume(pr) ==
  /\ pr.op = "updateFromBackend"
  /\ \A i \in 1..Len(pr.chk) : pr.chk[i] \in {"true", "false"}
  /\ Commit(Emit(updatePolicy(Store, pr.files, [i \in 1..Len(pr.chk) |-> pr.chk[i] = "true"]),
                 <<Ev("updateFromBackend.return", NoFile)>>),
            Finish(pr))
  /\ UNCHANGED <<db, nextId, loaded>>

\* init -> loadFiles, up to `await this.backend.fetchFiles()`
InitCall ==
  /\ ~loaded
  /\ loaded' = TRUE
  /\ Commit(Store,
            Spawn(Proc("loadFiles", <<>>, <<>>, <<>>, 0, NoFile, {Req(0, "fetchFiles", 0, "", <<>>)})))
  /\ UNCHANGED <<db, nextId>>

\* loadFiles after the backend call: its error is thrown on; else fs.access is
\* started for every record
LoadFilesResume(pr) ==
  /\ pr.op = "loadFiles"
  /\ \E q \in Settled(pr, 0) :
       IF q.st = "err"
       THEN Commit(Emit(Store, <<Ev("init.throw", NoFile)>>), Finish(pr))
       ELSE IF Len(q.data) = 0
       THEN Commit(Emit(Store, <<Ev("init.return", NoFile)>>), Finish(pr))
       ELSE Commit(Store, Become(pr, [pr EXCEPT !.files = q.data, !.reqs = {},
                                         !.chk = [i \in 1..Len(q.data) |-> "checking"]]))
  /\ UNCHANGED <<db, nextId, loaded>>

\* one callback of the Promise.all of loadFiles, from the completion of fs.access
loadExistence(s, backendFile) ==
  IF access(backendFile.path)
  THEN LET files == filesFromBackend(<<backendFile>>)
       IN  Emit([s EXCEPT !.list = @ \o files], <<Ev("push", files[1])>>)
  ELSE Emit([s EXCEPT !.detached = @ \cup {backendFile.id}],
            <<Ev("console.log", NoFile), Ev("backend.removeFile(record)", Obj(backendFile.id, 0))>>)

LoadAccessResolve(pr, i) ==
  /\ pr.op = "loadFiles"
  /\ i \in 1..Len(pr.chk)
  /\ pr.chk[i] = "checking"
  /\ LET next == [pr EXCEPT !.chk[i] = "true"]
         s == loadExistence(Store, pr.files[i])
     IN  IF \A j \in 1..Len(next.chk) : next.chk[j] = "true"
         THEN Commit(Emit(s, <<Ev("init.return", NoFile)>>), Finish(pr))
         ELSE Commit(s, Become(pr, next))
  /\ UNCHANGED <<db, nextId, loaded>>

\* An operation of the store is called when no other is in flight.
Quiet == procs = EmptyBag

FileNext ==
  \/ Quiet /\ InitCall /\ UNCHANGED treeVars
  \/ \E path \in Paths : Quiet /\ AddFileCall(path) /\ UNCHANGED treeVars
  \/ \E ids \in IdLists : Quiet /\ RemoveFilesByIdCall(ids) /\ UNCHANGED treeVars
  \/ Quiet /\ FetchAllFilesCall /\ UNCHANGED treeVars
  \/ \E tags \in TagLists : Quiet /\ FetchFilesByTagIDsCall(tags) /\ UNCHANGED treeVars
  \/ \E pr \in Running : AddFileResume(pr) /\ UNCHANGED treeVars
  \/ \E pr \in Running : RemoveFilesByIdResume(pr) /\ UNCHANGED treeVars
  \/ \E pr \in Running : FetchResume(pr) /\ UNCHANGED treeVars
  \/ \E pr \in Running, i \in 1..MaxFiles : AccessResolve(pr, i) /\ UNCHANGED treeVars
  \/ \E pr \in Running, i \in 1..MaxFiles : CallbackResume(pr, i) /\ UNCHANGED treeVars
  \/ \E pr \in Running : UpdateFromBackendResume(pr) /\ UNCHANGED treeVars
  \/ \E pr \in Running : LoadFilesResume(pr) /\ UNCHANGED treeVars
  \/ \E pr \in Running, i \in 1..MaxFiles : LoadAccessResolve(pr, i) /\ UNCHANGED treeVars
  \/ \E pr \in Running, ok \in BOOLEAN : BackendCreateFile(pr, ok) /\ UNCHANGED treeVars
  \/ \E pr \in Running, ok \in BOOLEAN : BackendFetchFiles(pr, ok) /\ UNCHANGED treeVars
  \/ \E pr \in Running, ok \in BOOLEAN, found \in SubSeqs(db) : BackendSearchFiles(pr, ok, found) /\ UNCHANGED treeVars
  \/ \E pr \in Running, ok \in BOOLEAN : BackendRemoveFile(pr, ok) /\ UNCHANGED treeVars
  \/ \E id \in FileIds, ok \in BOOLEAN : BackendRemoveFileDetached(id, ok) /\ UNCHANGED treeVars

\* --------------------------------------------------------------- TagTree
ROOT_TAG_COLLECTION_ID == 0
SYSTEM_TAGS_ID == MaxCols + 1

Includes(s, x) == \E i \in 1..Len(s) : s[i] = x

\* Array.prototype.indexOf, counted from 0
IndexOf(s, x) == IF Includes(s, x) THEN Min({i \in 1..Len(s) : s[i] = x}) - 1 ELSE 0 - 1

\* Array.prototype.splice(start, 0, x)
Splice(s, start, x) ==
  LET n == Len(s)
      at == IF start < 0 THEN (IF n + start < 0 THEN 0 ELSE n + start)
            ELSE IF start > n THEN n ELSE start
  IN  SubSeq(s, 1, at) \o <<x>> \o SubSeq(s, at + 1, n)

Collection(tags, subs) == [tags |-> tags, subs |-> subs]

\* ClientTagCollection.clientSubCollections: the sub-collections that resolve
clientSubCollections(cs, col) == SelectSeq(cs[col].subs, LAMBDA c : c \in DOMAIN cs)

RECURSIVE Closure(_, _, _)
Closure(cs, front, seen) ==
  IF front \subseteq seen THEN seen
  ELSE LET new == front \ seen
       IN  Closure(cs, UNION {Range(clientSubCollections(cs, c)) : c \in new}, seen \cup new)

\* the collections under `col`, at any depth
Descendants(cs, col) == Closure(cs, Range(clientSubCollections(cs, col)), {})

\* The collections createTagCollectionTreeNode makes a node for, from the
\* root down: only these have handlers.
Rendered == Closure(cols, {ROOT_TAG_COLLECTION_ID}, {})

\* TagCollectionStore.addTagCollection(name, parent)
addTagCollection(cs, id, parent) ==
  [c \in DOMAIN cs \cup {id} |->
     IF c = id THEN Collection(<<>>, <<>>)
     ELSE IF c = parent THEN [cs[c] EXCEPT !.subs = Append(@, id)]
     ELSE cs[c]]

\* TagCollectionStore.removeTagCollection(col): the collection leaves the list
\* and its parent; what it contains is left alone
removeTagCollection(cs, col) ==
  [c \in DOMAIN cs \ {col} |-> [cs[c] EXCEPT !.subs = SelectSeq(@, LAMBDA x : x # col)]]

\* onMoveCollection that pushes a collection no collection holds
moveCollectionAppendsOrphan(cs, col, id) ==
  LET parents == {c \in DOMAIN cs : Includes(cs[c].subs, id)}
      detached_ == IF parents = {} THEN cs
                   ELSE [cs EXCEPT ![Min(parents)].subs = RemoveFirst(@, id)]
  IN  [detached_ EXCEPT ![col].subs = Append(@, id)]

\* onMoveCollection that puts the collection first among the sub-collections
moveCollectionUnshift(cs, col, id) ==
  LET parents == {c \in DOMAIN cs : Includes(cs[c].subs, id)}
  IN  IF parents = {} THEN cs
      ELSE LET detached_ == [cs EXCEPT ![Min(parents)].subs = RemoveFirst(@, id)]
           IN  [detached_ EXCEPT ![col].subs = <<id>> \o @]

\* onMoveCollection of the node of `col`; find takes the first collection of
\* the list, which holds the collections in the order of their creation
moveCollection(cs, col, id) ==
  LET parents == {c \in DOMAIN cs : Includes(cs[c].subs, id)}
  IN  IF parents = {} THEN cs
      ELSE LET movedCollectionParent == Min(parents)
               detached_ == [cs EXCEPT ![movedCollectionParent].subs = RemoveFirst(@, id)]
           IN  [detached_ EXCEPT ![col].subs = Append(@, id)]

\* onMoveTag that does not take the tag out of the collection it was in
moveTagCopies(cs, col, id) ==
  LET parents == {c \in DOMAIN cs : Includes(cs[c].tags, id)}
  IN  IF parents = {} THEN cs ELSE [cs EXCEPT ![col].tags = Append(@, id)]

\* onMoveTag of the node of `col`
moveTag(cs, col, id) ==
  LET parents == {c \in DOMAIN cs : Includes(cs[c].tags, id)}
  IN  IF parents = {} THEN cs
      ELSE LET movedCollectionParent == Min(parents)
               detached_ == [cs EXCEPT ![movedCollectionParent].tags = RemoveFirst(@, id)]
           IN  [detached_ EXCEPT ![col].tags = Append(@, id)]

\* onMoveTag of a tag that looks for the index of the target after it has
\* taken the moved tag out
moveTagOntoTagIndexAfterRemoval(cs, col, tag, movedTagId) ==
  LET origCols == {c \in DOMAIN cs : Includes(cs[c].tags, movedTagId)}
  IN  IF origCols = {} THEN cs
      ELSE LET origCol == Min(origCols)
               removed == [cs EXCEPT ![origCol].tags = RemoveFirst(@, movedTagId)]
               insertionIndex == IndexOf(removed[col].tags, tag)
           IN  [removed EXCEPT ![col].tags = Splice(@, insertionIndex, movedTagId)]

\* onMoveTag of the node of the tag `tag` of `col`
moveTagOntoTag(cs, col, tag, movedTagId) ==
  LET origCols == {c \in DOMAIN cs : Includes(cs[c].tags, movedTagId)}
  IN  IF origCols = {} THEN cs
      ELSE LET origCol == Min(origCols)
               insertionIndex == IndexOf(cs[col].tags, tag)
               removed == [cs EXCEPT ![origCol].tags = RemoveFirst(@, movedTagId)]
           IN  [removed EXCEPT ![col].tags = Splice(@, insertionIndex, movedTagId)]

\* getRecursiveTags that puts the tags of the sub-collections first
RECURSIVE getRecursiveTagsPostOrder(_, _), flatMapPostOrder(_, _)
getRecursiveTagsPostOrder(cs, col) ==
  flatMapPostOrder(cs, clientSubCollections(cs, col)) \o cs[col].tags

flatMapPostOrder(cs, subCols) ==
  IF Len(subCols) = 0 THEN <<>>
  ELSE getRecursiveTagsPostOrder(cs, Head(subCols)) \o flatMapPostOrder(cs, Tail(subCols))

\* getRecursiveTags of handleNodeClick
RECURSIVE getRecursiveTags(_, _), flatMapRecursiveTags(_, _)
getRecursiveTags(cs, col) ==
  cs[col].tags \o flatMapRecursiveTags(cs, clientSubCollections(cs, col))

flatMapRecursiveTags(cs, subCols) ==
  IF Len(subCols) = 0 THEN <<>>
  ELSE getRecursiveTags(cs, Head(subCols)) \o flatMapRecursiveTags(cs, Tail(subCols))

\* ClientTagCollection.isSelected: it has tags below it and all are selected
isSelected(cs, sel, col) ==
  LET tags == Range(getRecursiveTags(cs, col))
  IN  tags # {} /\ tags \subseteq Range(sel)

\* selectedTags.forEach((tagId) => uiStore.tagSelection.remove(tagId))
RECURSIVE removeEach(_, _)
removeEach(sel, tags) ==
  IF Len(tags) = 0 THEN sel ELSE removeEach(RemoveFirst(sel, Head(tags)), Tail(tags))

\* selectedTags.forEach((tagId) => !includes(tagId) && push(tagId))
RECURSIVE pushEachNew(_, _)
pushEachNew(sel, tags) ==
  IF Len(tags) = 0 THEN sel
  ELSE pushEachNew(IF Includes(sel, Head(tags)) THEN sel ELSE Append(sel, Head(tags)), Tail(tags))

\* the click on a collection that pushes tags that are selected already
toggleCollectionPushAll(cs, sel, col) ==
  IF isSelected(cs, sel, col)
  THEN removeEach(sel, getRecursiveTags(cs, col))
  ELSE sel \o getRecursiveTags(cs, col)

\* handleNodeClick on a collection: all its tags leave the selection if it is
\* selected, and join it otherwise
toggleCollection(cs, sel, col) ==
  IF isSelected(cs, sel, col)
  THEN removeEach(sel, getRecursiveTags(cs, col))
  ELSE pushEachNew(sel, getRecursiveTags(cs, col))

\* handleSelection: uiStore.deselectTag or uiStore.selectTag
handleSelection(sel, tag) ==
  IF Includes(sel, tag) THEN RemoveFirst(sel, tag) ELSE Append(sel, tag)

TreeInit ==
  /\ cols = [c \in {ROOT_TAG_COLLECTION_ID} |-> Collection(<<>>, <<>>)]
  /\ nextCol = 1
  /\ nextTag = 1
  /\ adding = [c \in ColIds |-> 0]
  /\ tagSelection = <<>>
  /\ expandState = [k \in {ROOT_TAG_COLLECTION_ID, SYSTEM_TAGS_ID} |-> TRUE]
  /\ fetches = <<>>
  /\ handler = ""

\* onAddTag, up to the completion of tagStore.addTag
OnAddTag(col) ==
  /\ col \in Rendered
  /\ nextTag + Sum(adding, ColIds) <= MaxTags
  /\ adding' = [adding EXCEPT ![col] = @ + 1]
  /\ handler' = "onAddTag"
  /\ fetches' = <<>>
  /\ UNCHANGED <<cols, nextCol, nextTag, tagSelection, expandState>>

\* onAddTag, when tagStore.addTag has made the tag (it joins the tags of the
\* collection) or has failed (the error is logged)
AddTagEnd(col, ok) ==
  /\ adding[col] > 0
  /\ adding' = [adding EXCEPT ![col] = @ - 1]
  /\ IF ok
     THEN /\ nextTag' = nextTag + 1
          /\ cols' = IF col \in DOMAIN cols
                     THEN [cols EXCEPT ![col].tags = Append(@, nextTag)] ELSE cols
     ELSE UNCHANGED <<cols, nextTag>>
  /\ handler' = IF ok THEN "addTag.then" ELSE "addTag.catch"
  /\ fetches' = <<>>
  /\ UNCHANGED <<nextCol, tagSelection, expandState>>

OnAddCollection(col) ==
  /\ col \in Rendered
  /\ nextCol <= MaxCols
  /\ cols' = addTagCollection(cols, nextCol, col)
  /\ nextCol' = nextCol + 1
  /\ expandState' = [k \in DOMAIN expandState \cup {nextCol} |->
                       IF k = nextCol THEN TRUE ELSE expandState[k]]
  /\ handler' = "onAddCollection"
  /\ fetches' = <<>>
  /\ UNCHANGED <<nextTag, adding, tagSelection>>

\* onRemove: not offered for the root
OnRemove(col) ==
  /\ col \in Rendered
  /\ col # ROOT_TAG_COLLECTION_ID
  /\ cols' = removeTagCollection(cols, col)
  /\ handler' = "onRemove"
  /\ fetches' = <<>>
  /\ UNCHANGED <<nextCol, nextTag, adding, tagSelection, expandState>>

OnMoveCollection(col, id) ==
  /\ col \in Rendered
  /\ cols' = moveCollection(cols, col, id)
  /\ handler' = "onMoveCollection"
  /\ fetches' = <<>>
  /\ UNCHANGED <<nextCol, nextTag, adding, tagSelection, expandState>>

OnMoveTag(col, id) ==
  /\ col \in Rendered
  /\ cols' = moveTag(cols, col, id)
  /\ handler' = "onMoveTag"
  /\ fetches' = <<>>
  /\ UNCHANGED <<nextCol, nextTag, adding, tagSelection, expandState>>

OnMoveTagOntoTag(col, tag, movedTagId) ==
  /\ col \in Rendered
  /\ Includes(cols[col].tags, tag)
  /\ cols' = moveTagOntoTag(cols, col, tag, movedTagId)
  /\ handler' = IF \E c \in DOMAIN cols : Includes(cols[c].tags, movedTagId)
                THEN "TagListItem.onMoveTag"
                ELSE "TagListItem.onMoveTag: console.error"
  /\ fetches' = <<>>
  /\ UNCHANGED <<nextCol, nextTag, adding, tagSelection, expandState>>

\* handleNodeClick on the all-tags node, on the node of a tag or on the node
\* of a collection
HandleNodeClick(kind, id) ==
  /\ CASE kind = "all-tags" -> tagSelection' = <<>>
       [] kind = "tag" ->
            /\ \E col \in Rendered : Includes(cols[col].tags, id)
            /\ tagSelection' = handleSelection(tagSelection, id)
       [] kind = "collection" ->
            /\ id \in Rendered
            /\ tagSelection' = toggleCollection(cols, tagSelection, id)
  /\ handler' = "handleNodeClick"
  /\ fetches' = <<tagSelection'>>
  /\ UNCHANGED <<cols, nextCol, nextTag, adding, expandState>>

\* setExpandStateRecursively that leaves the sub-collections as they are
setExpandStateShallow(cs, col, val, state) ==
  [k \in DOMAIN state \cup {col} |-> IF k = col THEN val ELSE state[k]]

\* setExpandStateRecursively: the sub-collections first, each on the state the
\* one before it has left, then the collection itself
RECURSIVE setExpandStateRecursively(_, _, _, _), forEachSubCollection(_, _, _, _)
setExpandStateRecursively(cs, col, val, state) ==
  LET below == forEachSubCollection(cs, clientSubCollections(cs, col), val, state)
  IN  [k \in DOMAIN below \cup {col} |-> IF k = col THEN val ELSE below[k]]

forEachSubCollection(cs, subCols, val, state) ==
  IF Len(subCols) = 0 THEN state
  ELSE forEachSubCollection(cs, Tail(subCols), val,
                            setExpandStateRecursively(cs, Head(subCols), val, state))

\* { ...expandState, [key]: val }
WithKey(state, key, val) ==
  [k \in DOMAIN state \cup {key} |-> IF k = key THEN val ELSE state[k]]

OnExpand(col) ==
  /\ col \in Rendered
  /\ expandState' = WithKey(expandState, col, TRUE)
  /\ handler' = "onExpand"
  /\ fetches' = <<>>
  /\ UNCHANGED <<cols, nextCol, nextTag, adding, tagSelection>>

OnExpandAll(col) ==
  /\ col \in Rendered
  /\ expandState' = setExpandStateRecursively(cols, col, TRUE, expandState)
  /\ handler' = "onExpandAll"
  /\ fetches' = <<>>
  /\ UNCHANGED <<cols, nextCol, nextTag, adding, tagSelection>>

OnCollapseAll(col) ==
  /\ col \in Rendered
  /\ expandState' = setExpandStateRecursively(cols, col, FALSE, expandState)
  /\ handler' = "onCollapseAll"
  /\ fetches' = <<>>
  /\ UNCHANGED <<cols, nextCol, nextTag, adding, tagSelection>>

\* The nodes with a caret: those of the collections and the system node.
CaretNodes == Rendered \cup {SYSTEM_TAGS_ID}

HandleNodeCollapse(id) ==
  /\ id \in CaretNodes
  /\ expandState' = WithKey(expandState, id, FALSE)
  /\ handler' = "handleNodeCollapse"
  /\ fetches' = <<>>
  /\ UNCHANGED <<cols, nextCol, nextTag, adding, tagSelection>>

HandleNodeExpand(id) ==
  /\ id \in CaretNodes
  /\ expandState' = WithKey(expandState, id, TRUE)
  /\ handler' = "handleNodeExpand"
  /\ fetches' = <<>>
  /\ UNCHANGED <<cols, nextCol, nextTag, adding, tagSelection>>

TreeNext ==
  \/ \E col \in ColIds : OnAddTag(col) /\ UNCHANGED fileVars
  \/ \E col \in ColIds, ok \in BOOLEAN : AddTagEnd(col, ok) /\ UNCHANGED fileVars
  \/ \E col \in ColIds : OnAddCollection(col) /\ UNCHANGED fileVars
  \/ \E col \in ColIds : OnRemove(col) /\ UNCHANGED fileVars
  \/ \E col \in ColIds, id \in DOMAIN cols : OnMoveCollection(col, id) /\ UNCHANGED fileVars
  \/ \E col \in ColIds, id \in TagIds : OnMoveTag(col, id) /\ UNCHANGED fileVars
  \/ \E col \in ColIds, tag \in TagIds, id \in TagIds : OnMoveTagOntoTag(col, tag, id) /\ UNCHANGED fileVars
  \/ \E kind \in {"all-tags", "tag", "collection"}, id \in ColIds \cup TagIds :
        HandleNodeClick(kind, id) /\ UNCHANGED fileVars

\* The collections and their expand state: tags have no part in it.
ExpandNext ==
  \/ \E col \in ColIds : OnAddCollection(col) /\ UNCHANGED fileVars
  \/ \E col \in ColIds : OnRemove(col) /\ UNCHANGED fileVars
  \/ \E col \in ColIds, id \in DOMAIN cols : OnMoveCollection(col, id) /\ UNCHANGED fileVars
  \/ \E col \in ColIds : OnExpand(col) /\ UNCHANGED fileVars
  \/ \E col \in ColIds : OnExpandAll(col) /\ UNCHANGED fileVars
  \/ \E col \in ColIds : OnCollapseAll(col) /\ UNCHANGED fileVars
  \/ \E id \in ColIds \cup {SYSTEM_TAGS_ID} : HandleNodeCollapse(id) /\ UNCHANGED fileVars
  \/ \E id \in ColIds \cup {SYSTEM_TAGS_ID} : HandleNodeExpand(id) /\ UNCHANGED fileVars

\* -------------------------------------------------------- specifications
vars == <<fileVars, treeVars>>

Init == FileInit /\ TreeInit

\* The file store, from the start of the application.
Spec == Init /\ [][FileNext]_vars

\* The tag tree over an empty database, from its root alone.
EmptyInit == Init /\ db = <<>>

TreeSpec == EmptyInit /\ [][TreeNext]_vars

ExpandSpec == EmptyInit /\ [][ExpandNext]_vars

\* Calls in flight at the same time.
MaxInFlight == 2
\* Calls made from one idle moment of the store to the next.
MaxBurst == 3

Few == BagCardinality(procs) < MaxInFlight /\ Stamp < MaxBurst

\* The file store with calls made while others are in flight, over a database
\* that starts with one record. removeFilesById is given one id and the
\* fetches ask for all files: the reconcile that follows is the same for a search.
ConcNext ==
  \/ Few /\ InitCall /\ UNCHANGED treeVars
  \/ \E path \in Paths : Few /\ AddFileCall(path) /\ UNCHANGED treeVars
  \/ \E id \in FileIds : Few /\ RemoveFilesByIdCall(<<id>>) /\ UNCHANGED treeVars
  \/ Few /\ FetchAllFilesCall /\ UNCHANGED treeVars
  \/ Few /\ FetchFilesByTagIDsCall(<<>>) /\ UNCHANGED treeVars
  \/ \E pr \in Running : AddFileResume(pr) /\ UNCHANGED treeVars
  \/ \E pr \in Running : RemoveFilesByIdResume(pr) /\ UNCHANGED treeVars
  \/ \E pr \in Running : FetchResume(pr) /\ UNCHANGED treeVars
  \/ \E pr \in Running, i \in 1..MaxFiles : AccessResolve(pr, i) /\ UNCHANGED treeVars
  \/ \E pr \in Running, i \in 1..MaxFiles : CallbackResume(pr, i) /\ UNCHANGED treeVars
  \/ \E pr \in Running : UpdateFromBackendResume(pr) /\ UNCHANGED treeVars
  \/ \E pr \in Running : LoadFilesResume(pr) /\ UNCHANGED treeVars
  \/ \E pr \in Running, i \in 1..MaxFiles : LoadAccessResolve(pr, i) /\ UNCHANGED treeVars
  \/ \E pr \in Running, ok \in BOOLEAN : BackendCreateFile(pr, ok) /\ UNCHANGED treeVars
  \/ \E pr \in Running, ok \in BOOLEAN : BackendFetchFiles(pr, ok) /\ UNCHANGED treeVars
  \/ \E pr \in Running, ok \in BOOLEAN : BackendRemoveFile(pr, ok) /\ UNCHANGED treeVars
  \/ \E id \in FileIds, ok \in BOOLEAN : BackendRemoveFileDetached(id, ok) /\ UNCHANGED treeVars

ConcInit == Init /\ db = <<Rec(1, "here")>>

ConcSpec == ConcInit /\ [][ConcNext]_vars

\* handleNodeClick with the call of the store it makes: the one call of
\* fileStore.fetchFilesByTagIDs with the selection as the click left it
Click(kind, id) ==
  /\ HandleNodeClick(kind, id)
  /\ FetchFilesByTagIDsCall(fetches'[1])

\* The clicks of the tree, over an empty backend, with the fetches they start;
\* a click is made when the fetch of the click before has ended.
ClickNext ==
  \/ \E col \in ColIds : OnAddTag(col) /\ UNCHANGED fileVars
  \/ \E col \in ColIds, ok \in BOOLEAN : AddTagEnd(col, ok) /\ UNCHANGED fileVars
  \/ \E col \in ColIds : OnAddCollection(col) /\ UNCHANGED fileVars
  \/ \E kind \in {"all-tags", "tag", "collection"}, id \in ColIds \cup TagIds :
        Quiet /\ Click(kind, id)
  \/ \E pr \in Running : FetchResume(pr) /\ UNCHANGED treeVars
  \/ \E pr \in Running : UpdateFromBackendResume(pr) /\ UNCHANGED treeVars
  \/ \E pr \in Running, ok \in BOOLEAN : BackendFetchFiles(pr, ok) /\ UNCHANGED treeVars
  \/ \E pr \in Running, ok \in BOOLEAN, found \in SubSeqs(db) :
        BackendSearchFiles(pr, ok, found) /\ UNCHANGED treeVars

ClickSpec == EmptyInit /\ [][ClickNext]_vars

\* Removals by id from a list filled by init, and tags dropped onto tags in a
\* tree of tags under the root. The store and the tree share no state: the
\* handlers of the tree are taken while the store is idle.
NotFoundNext ==
  \/ Quiet /\ InitCall /\ UNCHANGED treeVars
  \/ \E ids \in IdLists : Quiet /\ RemoveFilesByIdCall(ids) /\ UNCHANGED treeVars
  \/ \E pr \in Running : RemoveFilesByIdResume(pr) /\ UNCHANGED treeVars
  \/ \E pr \in Running : LoadFilesResume(pr) /\ UNCHANGED treeVars
  \/ \E pr \in Running, i \in 1..MaxFiles : LoadAccessResolve(pr, i) /\ UNCHANGED treeVars
  \/ \E pr \in Running, ok \in BOOLEAN : BackendFetchFiles(pr, ok) /\ UNCHANGED treeVars
  \/ \E pr \in Running, ok \in BOOLEAN : BackendRemoveFile(pr, ok) /\ UNCHANGED treeVars
  \/ \E id \in FileIds, ok \in BOOLEAN : BackendRemoveFileDetached(id, ok) /\ UNCHANGED treeVars
  \/ \E col \in ColIds : Quiet /\ OnAddTag(col) /\ UNCHANGED fileVars
  \/ \E col \in ColIds, ok \in BOOLEAN : Quiet /\ AddTagEnd(col, ok) /\ UNCHANGED fileVars
  \/ \E col \in ColIds, tag \in TagIds, id \in TagIds :
        Quiet /\ OnMoveTagOntoTag(col, tag, id) /\ UNCHANGED fileVars

NotFoundSpec == Init /\ [][NotFoundNext]_vars

\* removeFilesById interleaved with the fetches and their reconciles only. The
\* list is filled by reconciles alone, so every file of it has an existing
\* path and no reconcile removes an in-memory file.
RaceNext ==
  \/ \E id \in FileIds : Few /\ RemoveFilesByIdCall(<<id>>) /\ UNCHANGED treeVars
  \/ Few /\ FetchAllFilesCall /\ UNCHANGED treeVars
  \/ \E pr \in Running : RemoveFilesByIdResume(pr) /\ UNCHANGED treeVars
  \/ \E pr \in Running : FetchResume(pr) /\ UNCHANGED treeVars
  \/ \E pr \in Running, i \in 1..MaxFiles : AccessResolve(pr, i) /\ UNCHANGED treeVars
  \/ \E pr \in Running : UpdateFromBackendResume(pr) /\ UNCHANGED treeVars
  \/ \E pr \in Running, ok \in BOOLEAN : BackendFetchFiles(pr, ok) /\ UNCHANGED treeVars
  \/ \E pr \in Running, ok \in BOOLEAN : BackendRemoveFile(pr, ok) /\ UNCHANGED treeVars
  \/ \E id \in FileIds, ok \in BOOLEAN : BackendRemoveFileDetached(id, ok) /\ UNCHANGED treeVars

RaceSpec == Init /\ [][RaceNext]_vars

\* ------------------------------------------------------------ properties
Happened(kind) == \E i \in 1..Len(trace) : trace[i][1] = kind
Happens(kind) == \E i \in 1..Len(trace') : trace'[i][1] = kind

\* The calls in flight before a step that the step brings to their end.
Ending == {pr \in Running : procs' = Finish(pr)}

RecIds(records) == [i \in 1..Len(records) |-> records[i].id]

\* C1: when updateFromBackend returns, the ids of the file list are exactly
\* the ids of the records it was given whose path exists, in the order of
\* those records.
C1_ReconcileYieldsExisting ==
  [][\A pr \in Ending :
       pr.op = "updateFromBackend" /\ Happens("updateFromBackend.return")
       => Ids(fileList') = RecIds(SelectSeq(pr.files, LAMBDA r : access(r.path)))]_vars

\* a reconcile has replaced a non-empty list; a record whose path is gone, and
\* whose deletion is still on its way to the backend, is not in the list and a
\* record whose path exists is
C1_Witness ==
  /\ Happened("updateFromBackend.return") /\ Happened("replace")
  /\ \E r \in Range(db) : ~access(r.path) /\ r.id \in detached /\ Find(fileList, r.id) = NoFile
  /\ \E r \in Range(db) : access(r.path) /\ Find(fileList, r.id) # NoFile

\* the step takes `o` out of the list after it has disposed it
DisposedThenGone(o) ==
  \E i, j \in 1..Len(trace') :
    /\ i < j
    /\ trace'[i] = Ev("dispose", o)
    /\ trace'[j] \in {Ev("remove", o), Ev("clear", NoFile), Ev("replace", NoFile)}

\* C2: a file object that is in the list before a step and not after it has
\* been disposed in that step, before the list lost it.
C2_DisposedBeforeLeaving ==
  [][\A o \in Range(fileList) : o \notin Range(fileList') => DisposedThenGone(o)]_vars

\* a reconcile against no existing record has cleared a list of two files
C2_Witness ==
  /\ trace = <<Ev("dispose", Obj(1, 0)), Ev("dispose", Obj(2, 0)), Ev("clear", NoFile),
               Ev("updateFromBackend.return", NoFile)>>
  /\ fileList = <<>>

Removals(pr) == {q \in pr.reqs : q.kind = "removeFile"}

\* C3: removeFilesById has at most one backend deletion in flight, the one of
\* the file it is at; the files before it are disposed and out of the list;
\* it moves on only once that deletion has completed; and removeFile
\* deselects, disposes, removes from the list and calls the backend, in this
\* order.
C3_SequentialRemoval ==
  [][/\ \A pr \in BagToSet(procs') :
          pr.op = "removeFilesById" =>
            /\ Cardinality(Removals(pr)) <= 1
            /\ pr.k \in 1..Len(pr.rm)
            /\ \A q \in pr.reqs : q.kind = "removeFile" /\ q.id = pr.rm[pr.k].id
            /\ \A j \in 1..pr.k : pr.rm[j] # NoFile =>
                  pr.rm[j] \in disposed' /\ pr.rm[j] \notin Range(fileList')
     /\ \A pr \in Running, next \in BagToSet(procs') :
          /\ pr.op = "removeFilesById" /\ next.op = "removeFilesById"
          /\ next.rm = pr.rm /\ next.k > pr.k
          => /\ \A q \in pr.reqs : q.st = "ok"
             /\ \A j \in (pr.k + 1)..(next.k - 1) : pr.rm[j] = NoFile
     /\ \A j \in 1..Len(trace') :
          trace'[j][1] = "remove" =>
            /\ j > 2 /\ j < Len(trace')
            /\ trace'[j - 2] = Ev("deselectFile", trace'[j][2])
            /\ trace'[j - 1] = Ev("dispose", trace'[j][2])
            /\ trace'[j + 1] = Ev("backend.removeFile", trace'[j][2])
    ]_vars

\* removeFilesById is at its second file, after the deletion of its first
C3_Witness ==
  \E pr \in Running :
    /\ pr.op = "removeFilesById" /\ pr.k = 2
    /\ pr.rm[1] # NoFile /\ pr.rm[2] # pr.rm[1]
    /\ Happened("backend.removeFile")

\* C4: addFile after createFile: on an error it throws and the list is as it
\* was; otherwise the new file is appended and the entries before it keep
\* their places.
C4_AddFileOutcome ==
  [][\A pr \in Ending : \A q \in Settled(pr, 0) :
       pr.op = "addFile" =>
         IF q.st = "err"
         THEN Happens("addFile.throw") /\ fileList' = fileList
         ELSE /\ Happens("addFile.return")
              /\ Len(fileList') = Len(fileList) + 1
              /\ fileList'[Len(fileList')] = pr.obj
              /\ \A i \in 1..Len(fileList) : fileList'[i] = fileList[i]]_vars

\* addFile has thrown and a list that was not empty is still there
C4_Witness == Happened("addFile.throw") /\ Len(fileList) > 0

\* addFile has appended its file to a list that was not empty
C4_WitnessAppended == Happened("addFile.return") /\ Len(fileList) > 1

Throws ==
  \E i \in 1..Len(trace') :
    trace'[i][1] \in {"addFile.throw", "removeFilesById.throw", "updateFromBackend.throw",
                      "init.throw", "fetchAllFiles.throw", "fetchFilesByTagIDs.throw"}

\* C5: while fetchAllFiles or fetchFilesByTagIDs awaits the backend the file
\* list does not change, and when the backend call has failed the function
\* returns, throws nothing and leaves the list and the disposed objects as
\* they were.
C5_FetchFailsSoft ==
  [][/\ (\E pr \in Running \cup BagToSet(procs') : pr.op \in FetchOps)
          => fileList' = fileList /\ disposed' = disposed
     /\ \A pr \in Running : \A q \in Settled(pr, 0) :
          pr.op \in FetchOps /\ q.st = "err" /\ procs' # procs
          => /\ procs' = Finish(pr)
             /\ ~Throws
             /\ Happens(IF q.kind = "fetchFiles" THEN "fetchAllFiles.return"
                        ELSE "fetchFilesByTagIDs.return")]_vars

\* a failed backend.searchFiles has been logged and the list is still full
C5_Witness ==
  /\ Happened("console.log") /\ Happened("fetchFilesByTagIDs.return")
  /\ Len(fileList) = MaxFiles

\* the same for backend.fetchFiles
C5_WitnessFetchAll == Happened("console.error") /\ Len(fileList) = MaxFiles

Existing(pr) == SelectSeq(pr.files, LAMBDA r : access(r.path))

\* C13: when updateFromBackend returns, a file object that was in the list and
\* whose id is the id of a record whose path exists is still in the list, the
\* same object, and not disposed.
C13_IdentityPreserved ==
  [][\A pr \in Ending :
       pr.op = "updateFromBackend" /\ Happens("updateFromBackend.return")
       => \A o \in Range(fileList) :
            o.id \in Range(RecIds(Existing(pr)))
            => o \in Range(fileList') /\ o \notin disposed']_vars

\* C15: a backend deletion that fails during a reconcile does not make
\* updateFromBackend throw: every reconcile ends by its return, with the list
\* equal to the records whose path exists.
C15_DeletionFailureContained ==
  [][/\ ~Happens("updateFromBackend.throw")
     /\ \A pr \in Ending :
          pr.op = "updateFromBackend"
          => /\ Happens("updateFromBackend.return")
             /\ Ids(fileList') = RecIds(Existing(pr))]_vars

\* ------------------------------------------------- properties of the tree
Count(s, x) == Cardinality({i \in 1..Len(s) : s[i] = x})

TagOccurrences(cs, t) == Sum([c \in DOMAIN cs |-> Count(cs[c].tags, t)], DOMAIN cs)

SubOccurrences(cs, id) == Sum([c \in DOMAIN cs |-> Count(cs[c].subs, id)], DOMAIN cs)

Without(s, x) == SelectSeq(s, LAMBDA y : y # x)

NoOwnAncestor == \A c \in DOMAIN cols : c \notin Descendants(cols, c)

AllReachable == DOMAIN cols \subseteq Rendered

NothingRemoved == Cardinality(DOMAIN cols) = nextCol

\* C6: a move of a collection onto itself or onto one of its descendants is
\* rejected and leaves the tree as it was, so that no collection is ever its
\* own ancestor and, as long as no collection has been removed, every
\* collection is reachable from the root.
C6_MoveIntoOwnSubtreeRejected ==
  [][/\ \A col \in Rendered, id \in Rendered :
          /\ handler' = "onMoveCollection"
          /\ col \in {id} \cup Descendants(cols, id)
          /\ OnMoveCollection(col, id)
          => cols' = cols
     /\ NoOwnAncestor'
     /\ (NothingRemoved => AllReachable)']_vars

\* C7: every tag id is among the tags of at most one collection, at most once
\* there, and every collection id among the sub-collections of at most one
\* collection, at most once there.
C7_UniqueMembership ==
  /\ \A t \in TagIds : TagOccurrences(cols, t) <= 1
  /\ \A id \in ColIds : SubOccurrences(cols, id) <= 1

\* Tags and collections have been moved: a tag made later stands before one
\* made earlier right after a move of a tag, and so it is for collections.
C7_Witness ==
  /\ handler \in {"onMoveTag", "TagListItem.onMoveTag"}
  /\ \E c \in DOMAIN cols \ {ROOT_TAG_COLLECTION_ID} :
       Len(cols[c].tags) >= 2 /\ cols[c].tags[1] > cols[c].tags[2]
  /\ \E c \in DOMAIN cols :
       Len(cols[c].subs) >= 2 /\ cols[c].subs[1] > cols[c].subs[2]

\* C8: a tag T of collection A dropped on a tag of collection B that stands
\* at index i of B ends at index i of B; if A is not B it has left A and the
\* tag it was dropped on stands at index i + 1; T is in no other place, and
\* the other tags of every collection keep their order.
C8_MoveTagOntoTag ==
  [][\A col \in Rendered, tag \in TagIds, t \in TagIds :
        /\ handler' = "TagListItem.onMoveTag"
        /\ OnMoveTagOntoTag(col, tag, t)
        /\ TagOccurrences(cols, t) = 1
        => LET i == IndexOf(cols[col].tags, tag)
               A == CHOOSE c \in DOMAIN cols : Includes(cols[c].tags, t)
           IN  /\ DOMAIN cols' = DOMAIN cols
               /\ A # col => /\ ~Includes(cols'[A].tags, t)
                             /\ cols'[col].tags[i + 2] = tag
               /\ Len(cols'[col].tags) > i
               /\ cols'[col].tags[i + 1] = t
               /\ TagOccurrences(cols', t) = 1
               /\ \A c \in DOMAIN cols :
                    /\ Without(cols'[c].tags, t) = Without(cols[c].tags, t)
                    /\ cols'[c].subs = cols[c].subs]_vars

\* A tag has been dropped on a tag of another collection, before two others.
C8_Witness ==
  /\ handler = "TagListItem.onMoveTag"
  /\ \E c \in DOMAIN cols : cols[c].tags = <<1, 3, 2>>

\* A tag has been dropped on a tag that stood after it in its own collection.
C8_WitnessSameCollection ==
  /\ handler = "TagListItem.onMoveTag"
  /\ adding = [c \in ColIds |-> 0]
  /\ nextCol = 1
  /\ cols[ROOT_TAG_COLLECTION_ID].tags = <<2, 3, 1>>

Twice(col) == toggleCollection(cols, toggleCollection(cols, tagSelection, col), col)

RecursiveTagSet(col) ==
  UNION {Range(cols[c].tags) : c \in {col} \cup Descendants(cols, col)}

\* C9 as stated: a click on a collection, done twice, gives back the set of
\* selected tags, whatever the selection was.
C9_ToggleTwiceIsIdentity ==
  \A col \in Rendered : Range(Twice(col)) = Range(tagSelection)

\* C9: a click on a collection, done twice, gives back the set of selected
\* tags if all or none of the tags below the collection were selected; if some
\* but not all were, the two clicks leave none of them selected.
C9_ToggleTwice ==
  \A col \in Rendered :
    LET below == RecursiveTagSet(col)
        selected == Range(tagSelection)
    IN  IF below \subseteq selected \/ below \cap selected = {}
        THEN Range(Twice(col)) = selected
        ELSE Range(Twice(col)) = selected \ below

\* A click on a collection has selected the three tags below it, which are
\* its own and those of a sub-collection; another click undoes it.
C9_Witness ==
  /\ handler = "handleNodeClick"
  /\ \E col \in Rendered \ {ROOT_TAG_COLLECTION_ID} :
       /\ Descendants(cols, col) # {}
       /\ cols[col].tags # <<>>
       /\ Cardinality(RecursiveTagSet(col)) = MaxTags
       /\ tagSelection = getRecursiveTags(cols, col)

\* Some but not all tags below a collection are selected.
C9_WitnessPartial ==
  /\ handler = "handleNodeClick"
  /\ \E col \in Rendered :
       /\ RecursiveTagSet(col) \cap Range(tagSelection) # {}
       /\ ~(RecursiveTagSet(col) \subseteq Range(tagSelection))

\* The tree is one: membership is unique and no collection is its own ancestor.
TreeInvariant == C7_UniqueMembership /\ NoOwnAncestor

\* The walk of the tree below the collections of `stack`, which takes each
\* collection's tags when it comes to it and puts its sub-collections before
\* what is left to visit.
RECURSIVE PreOrderWalk(_, _)
PreOrderWalk(stack, acc) ==
  IF Len(stack) = 0 THEN acc
  ELSE PreOrderWalk(clientSubCollections(cols, Head(stack)) \o Tail(stack),
                    acc \o cols[Head(stack)].tags)

\* C10: in a tree, getRecursiveTags gives the tags of the collection and then
\* those of each sub-collection in turn (pre-order), none twice, and they are
\* the tags of the collection and of all its descendants.
C10_RecursiveTagsPreOrder ==
  TreeInvariant =>
    \A col \in DOMAIN cols :
      LET tags == getRecursiveTags(cols, col)
      IN  /\ tags = PreOrderWalk(<<col>>, <<>>)
          /\ \A i, j \in 1..Len(tags) : tags[i] = tags[j] => i = j
          /\ Range(tags) = RecursiveTagSet(col)

\* A click on the root has taken the tags of the root, then those of its first
\* sub-collection and of the collection below that one: three levels.
C10_Witness ==
  /\ TreeInvariant
  /\ handler = "handleNodeClick"
  /\ \E a, b \in DOMAIN cols :
       /\ cols[ROOT_TAG_COLLECTION_ID].subs = <<a>>
       /\ cols[a].subs = <<b>>
       /\ Len(cols[ROOT_TAG_COLLECTION_ID].tags) = 1
       /\ Len(cols[a].tags) = 1
       /\ Len(cols[b].tags) = 1
       /\ tagSelection = getRecursiveTags(cols, ROOT_TAG_COLLECTION_ID)

\* A collection with tags of its own and two sub-collections with tags.
C10_WitnessSiblings ==
  /\ TreeInvariant
  /\ \E a, b \in DOMAIN cols :
       /\ cols[ROOT_TAG_COLLECTION_ID].subs = <<b, a>>
       /\ Len(cols[ROOT_TAG_COLLECTION_ID].tags) = 1
       /\ Len(cols[a].tags) = 1
       /\ Len(cols[b].tags) = 1

Parents(id) == {c \in DOMAIN cols : Includes(cols[c].subs, id)}

\* C14: the root collection always exists and no collection has it among its
\* sub-collections; a drop of the root on a collection changes nothing.
C14_RootStays ==
  [][/\ ROOT_TAG_COLLECTION_ID \in DOMAIN cols'
     /\ SubOccurrences(cols', ROOT_TAG_COLLECTION_ID) = 0
     /\ \A col \in Rendered :
          /\ handler' = "onMoveCollection"
          /\ OnMoveCollection(col, ROOT_TAG_COLLECTION_ID)
          => cols' = cols]_vars

\* The root, the only collection there has ever been, has been dropped on its
\* own node.
C14_Witness ==
  /\ handler = "onMoveCollection"
  /\ nextCol = 1
  /\ cols = [c \in {ROOT_TAG_COLLECTION_ID} |-> Collection(cols[c].tags, <<>>)]

\* a collection has been removed: the root is still there
C14_WitnessRemove ==
  /\ handler = "onRemove"
  /\ DOMAIN cols = {ROOT_TAG_COLLECTION_ID}

\* C16 as stated: a moved collection that no collection holds is pushed onto
\* the sub-collections of the target; one that has a parent leaves it and is
\* pushed onto the sub-collections of the target.
C16_MoveCollectionAppends ==
  [][\A col \in Rendered, id \in DOMAIN cols :
        /\ handler' = "onMoveCollection"
        /\ OnMoveCollection(col, id)
        => IF Parents(id) = {}
           THEN cols' = [cols EXCEPT ![col].subs = Append(@, id)]
           ELSE /\ Len(cols'[col].subs) > 0
                /\ cols'[col].subs[Len(cols'[col].subs)] = id
                /\ SubOccurrences(cols', id) = 1]_vars

\* C16: a moved collection that no collection holds leaves the tree as it is;
\* one that has a parent leaves it and ends last among the sub-collections of
\* the target, the other sub-collections of every collection keep their
\* order, and a drop on its own parent keeps the members of the parent.
C16_MoveCollection ==
  [][\A col \in Rendered, id \in DOMAIN cols :
        /\ handler' = "onMoveCollection"
        /\ OnMoveCollection(col, id)
        => IF Parents(id) = {}
           THEN cols' = cols
           ELSE /\ DOMAIN cols' = DOMAIN cols
                /\ Len(cols'[col].subs) > 0
                /\ cols'[col].subs[Len(cols'[col].subs)] = id
                /\ SubOccurrences(cols', id) = 1
                /\ \A c \in DOMAIN cols :
                     /\ Without(cols'[c].subs, id) = Without(cols[c].subs, id)
                     /\ cols'[c].tags = cols[c].tags
                /\ col \in Parents(id)
                     => Range(cols'[col].subs) = Range(cols[col].subs)]_vars

\* A collection has been dropped on its own parent and stands last now.
C16_Witness ==
  /\ handler = "onMoveCollection"
  /\ cols[ROOT_TAG_COLLECTION_ID].subs = <<2, 1>>

\* The root, which no collection holds, has been dropped on its own node after
\* the only other collection was removed.
C16_WitnessNoParent ==
  /\ handler = "onMoveCollection"
  /\ nextCol = 2
  /\ DOMAIN cols = {ROOT_TAG_COLLECTION_ID}

\* --------------------------------------- properties of the expand state
Branch(col) == {col} \cup Descendants(cols, col)

\* C11: expand-all and collapse-all of a collection give its key and the keys
\* of all its descendants the value, and every other key (siblings, ancestors,
\* the system node, keys of removed collections) keeps its value.
C11_SetExpandStateRecursively ==
  [][\A col \in Rendered, val \in BOOLEAN :
        /\ handler' = (IF val THEN "onExpandAll" ELSE "onCollapseAll")
        /\ IF val THEN OnExpandAll(col) ELSE OnCollapseAll(col)
        => /\ DOMAIN expandState' = DOMAIN expandState \cup Branch(col)
           /\ \A k \in Branch(col) : expandState'[k] = val
           /\ \A k \in DOMAIN expandState \ Branch(col) : expandState'[k] = expandState[k]]_vars

\* After collapse-all on one branch, its sibling branch is still expanded and
\* so are the root and the system node.
C11_Witness ==
  /\ handler = "onCollapseAll"
  /\ \E a, b \in DOMAIN cols :
       /\ cols[ROOT_TAG_COLLECTION_ID].subs = <<a, b>>
       /\ expandState[a] /\ ~expandState[b]
       /\ expandState[ROOT_TAG_COLLECTION_ID] /\ expandState[SYSTEM_TAGS_ID]

\* After collapse-all on a collection with a sub-collection, both are collapsed;
\* the root above them is still expanded and the system node still collapsed.
C11_WitnessDescendants ==
  /\ handler = "onCollapseAll"
  /\ \E a, b \in DOMAIN cols :
       /\ cols[ROOT_TAG_COLLECTION_ID].subs = <<a>>
       /\ cols[a].subs = <<b>>
       /\ ~expandState[a] /\ ~expandState[b]
       /\ expandState[ROOT_TAG_COLLECTION_ID] /\ ~expandState[SYSTEM_TAGS_ID]

\* ------------------------------ properties of the clicks
NewCalls == procs' (-) procs

\* C18: a click on a tag, a collection or the all-tags node starts exactly one
\* fetch, with the selection as the click left it: backend.fetchFiles when the
\* selection is empty, backend.searchFiles with exactly the selected ids
\* otherwise; no other step starts a fetch. A
\* click on a tag takes it out of the selection when it is there and appends it
\* otherwise, the other ids staying as they are.
C18_ClickFetchesSelection ==
  [][/\ \A kind \in {"all-tags", "tag", "collection"}, id \in ColIds \cup TagIds :
          Click(kind, id)
          => /\ BagCardinality(NewCalls) = 1
             /\ \A pr \in BagToSet(NewCalls) :
                  /\ Cardinality(pr.reqs) = 1
                  /\ \A r \in pr.reqs :
                       /\ r.st = "pending"
                       /\ IF Len(tagSelection') = 0
                          THEN r.kind = "fetchFiles"
                          ELSE r.kind = "searchFiles" /\ r.tags = tagSelection'
             /\ kind = "tag"
                => /\ Without(tagSelection', id) = Without(tagSelection, id)
                   /\ Count(tagSelection', id) = (IF Includes(tagSelection, id) THEN 0 ELSE 1)
                   /\ ~Includes(tagSelection, id) => tagSelection' = Append(tagSelection, id)
     /\ BagCardinality(procs') > BagCardinality(procs)
          => \E kind \in {"all-tags", "tag", "collection"}, id \in ColIds \cup TagIds :
               Click(kind, id)]_vars

\* a click has just selected a second tag: its search is in flight with the
\* selection
C18_Witness ==
  /\ handler = "handleNodeClick" /\ Len(tagSelection) = 2
  /\ \E pr \in Running :
       /\ pr.op = "fetchFilesByTagIDs"
       /\ \E r \in pr.reqs : r.kind = "searchFiles" /\ r.st = "pending" /\ r.tags = tagSelection

\* a click has just left the selection empty, with tags in the tree: the fetch
\* of all files is in flight
C18_WitnessEmptied ==
  /\ handler = "handleNodeClick" /\ tagSelection = <<>> /\ nextTag > 1
  /\ \E pr \in Running :
       \E r \in pr.reqs : r.kind = "fetchFiles" /\ r.st = "pending"

\* ------------------------------ properties of ids that do not resolve
\* the first place from k0 on of a file that was found, or the place after the last
SkipTo(rm, k0) ==
  CHOOSE k \in k0..(Len(rm) + 1) :
    /\ k > Len(rm) \/ rm[k] # NoFile
    /\ \A j \in k0..(k - 1) : rm[j] = NoFile

\* removeFilesById goes on from place k0 of its files: one log for each id
\* without a file and nothing else for it; then the next file found is
\* deselected, disposed, taken from the list and its backend deletion started,
\* or the call returns when there is none. The backend is not touched.
Section(rm, k0) ==
  LET k == SkipTo(rm, k0)
  IN  /\ trace' = [i \in 1..(k - k0) |-> Ev("console.log", NoFile)]
                   \o (IF k > Len(rm) THEN <<Ev("removeFilesById.return", NoFile)>>
                       ELSE <<Ev("deselectFile", rm[k]), Ev("dispose", rm[k]),
                              Ev("remove", rm[k]), Ev("backend.removeFile", rm[k])>>)
      /\ fileList' = (IF k > Len(rm) THEN fileList ELSE Without(fileList, rm[k]))
      /\ db' = db
      /\ IF k > Len(rm)
         THEN \A pr \in BagToSet(procs') : pr.op # "removeFilesById"
         ELSE \E pr \in BagToSet(procs') :
                /\ pr.op = "removeFilesById" /\ pr.rm = rm /\ pr.k = k
                /\ \A r \in pr.reqs :
                     r.st = "pending" => r.kind = "removeFile" /\ r.id = rm[k].id

Resolved(id) ==
  IF \E o \in Range(fileList) : o.id = id
  THEN fileList[CHOOSE i \in 1..Len(fileList) :
                  fileList[i].id = id /\ \A j \in 1..(i - 1) : fileList[j].id # id]
  ELSE NoFile

\* C20: an id that does not resolve is logged and changes nothing. In
\* removeFilesById an id without a file in the list gives one log and no
\* deselect, dispose, removal from the list or backend deletion, and the ids
\* after it are still removed, in order, at the call and after each backend
\* deletion that succeeds. A tag that is in no collection, dropped onto a tag,
\* is logged and leaves the tags of every collection as they are.
C20_UnresolvedIdIsNoOp ==
  [][/\ \A ids \in IdLists :
          Quiet /\ RemoveFilesByIdCall(ids)
          => Section([i \in 1..Len(ids) |-> Resolved(ids[i])], 1)
     /\ \A pr \in Running :
          /\ pr.op = "removeFilesById"
          /\ RemoveFilesByIdResume(pr)
          /\ ~Happens("removeFilesById.throw")
          => Section(pr.rm, pr.k + 1)
     /\ \A col \in ColIds, tag \in TagIds, id \in TagIds :
          /\ handler' \in {"TagListItem.onMoveTag", "TagListItem.onMoveTag: console.error"}
          /\ OnMoveTagOntoTag(col, tag, id)
          /\ TagOccurrences(cols, id) = 0
          => cols' = cols /\ handler' = "TagListItem.onMoveTag: console.error"]_vars

\* removeFilesById was called with an id without a file and then the id of a
\* file: the first was logged and the file removed
C20_Witness ==
  \E o \in Range(fileList) \cup disposed :
    /\ trace = <<Ev("console.log", NoFile), Ev("deselectFile", o), Ev("dispose", o),
                 Ev("remove", o), Ev("backend.removeFile", o)>>
    /\ o \notin Range(fileList)

\* a tag that is in no collection was dropped onto the second tag of the root
C20_WitnessTag ==
  /\ handler = "TagListItem.onMoveTag: console.error"
  /\ cols[ROOT_TAG_COLLECTION_ID].tags = <<1, 2>>

\* ------------------------------ properties of the store under interleaving
\* C12: no two entries of the file list have the same id, whatever the
\* interleaving of init, addFile, the fetches and removeFilesById.
C12_UniqueIds ==
  \A i, j \in 1..Len(fileList) : fileList[i].id = fileList[j].id => i = j

\* C17: a fetch cancels nothing. A new fetch leaves every call in flight as it
\* is; a fetch whose backend call succeeds goes on to its reconcile with the
\* records it was given; and a reconcile that returns leaves the list equal to
\* its own existing records, whatever was applied before it: the reconcile
\* applied last decides the list. A reconcile ends otherwise only by its own
\* throw.
C17_LastReconcileWins ==
  [][/\ FetchAllFilesCall \/ FetchFilesByTagIDsCall(<<>>)
          => /\ \A pr \in Running : CopiesIn(pr, procs') >= CopiesIn(pr, procs)
             /\ BagCardinality(procs') = BagCardinality(procs) + 1
     /\ \A pr \in Running :
          pr.op \in FetchOps /\ FetchResume(pr)
          => \A q \in Settled(pr, 0) :
               q.st = "ok" => [updateStart(q.data) EXCEPT !.at = pr.at] \in BagToSet(procs')
     /\ \A pr \in Ending :
          pr.op = "updateFromBackend"
          => IF Happens("updateFromBackend.return")
             THEN Ids(fileList') = RecIds(Existing(pr))
             ELSE Happens("updateFromBackend.throw") \/ Rejected(pr.chk)]_vars

\* The reconcile of a later fetch has just been applied while the reconcile of
\* the fetch called first (at 0: no call was in flight when it was made) is
\* still in flight, has all its checks done and holds other records than the
\* list and the backend now have: it is applied next, last, with stale records.
C17_Witness ==
  /\ Happened("updateFromBackend.return")
  /\ \E pr \in Running :
       /\ procs = SetToBag({pr})
       /\ pr.op = "updateFromBackend" /\ pr.at = 0
       /\ \A i \in 1..Len(pr.chk) : pr.chk[i] \in {"true", "false"}
       /\ RecIds(Existing(pr)) # Ids(fileList)
       /\ Ids(fileList) = RecIds(db)
       /\ detached = {}

\* every call has ended, a reconcile was applied last, and the list it left is
\* not what the backend holds
C17_WitnessStaleEnd ==
  /\ Quiet /\ detached = {}
  /\ Happened("updateFromBackend.return")
  /\ \A i \in 1..Len(db) : access(db[i].path)
  /\ Ids(fileList) # RecIds(db)

\* C19: once every call has ended, and every backend deletion made on the
\* side with it, each file of the list has a record in the backend.
C19_ListedFilesHaveRecords ==
  Quiet /\ detached = {}
  => \A o \in Range(fileList) : \E r \in Range(db) : r.id = o.id

====
